---- MODULE Spec2Model ----
(***************************************************************************)
(* Aegis PII leakage detector: the scan tabs of the web client             *)
(* (GithubTab, PastebinTab, SocialTab, CombinedTab), the results view      *)
(* (ScanResults, ESSGauge, ReportDownloadButton), the API client and the   *)
(* authentication context with its ProtectedRoute.                         *)
(*                                                                         *)
(* Numbers.  An ESS value is kept in hundredths: 1000 is the score 10.0,   *)
(* 250 is 2.5.  A mean is kept as an exact fraction [num, den], since the  *)
(* client halves a sum of two means and a float division by two is exact.  *)
(*                                                                         *)
(* Optional values.  A JavaScript null or undefined object is the record   *)
(* Null; a null string is NullStr and an undefined string is Undefined.    *)
(***************************************************************************)
EXTENDS Integers, Sequences, FiniteSets, TLC

VARIABLES
    \* ---- Index page and the mounted scan tab
    activeTab,      \* Index.activeTab: "github" | "pastebin" | "social" | "combined"
    mode,           \* GithubTab.mode: "single" | "user"
    username,       \* GithubTab.username
    useNlp,         \* the tab's NLP toggle
    scanning,       \* the tab's scanning flag
    results,        \* the tab's results: a ScanResponse or Null
    error,          \* the tab's error: a message or NullStr
    sent,           \* requests of the running or last scan, by slot
    pending,        \* slots whose request is not answered yet
    replies,        \* fulfilled responses Promise.all is holding, by slot
    \* ---- ScanResults and ReportDownloadButton
    lastHistory,    \* body of the last POST /history/save, or Null
    historySaves,   \* POST /history/save calls since the last handleScan
    historyOutcome, \* of the last save: "none" | "pending" | "saved" | "ignored"
    loading,        \* ReportDownloadButton.loading
    reportBody,     \* body of the last POST /report/html, or Null
    reportOutcome,  \* "none" | "requested" | "downloaded" | "alert"
    \* ---- history of the run, for stating the properties
    nlpTouched,     \* the toggle of the mounted tab has been clicked
    nlpAtScan,      \* state of the toggle when handleScan was last called
    sourceScores,   \* per-source scores of the scans behind `results`
    reportOk,       \* the last /report/html response was ok
    \* ---- AuthProvider, localStorage and ProtectedRoute
    token,          \* AuthProvider.token: a token or NullStr
    user,           \* AuthProvider.user: a User or Null
    isLoading,      \* AuthProvider.isLoading
    lsToken,        \* localStorage["aegis_token"]: a string or NullStr
    lsUser,         \* localStorage["aegis_user"]: a stored string or Null
    authError,      \* message of the Error login or register threw last
    authPending,    \* the auth request in flight: "none" | "login" | "register"
    view,           \* what ProtectedRoute rendered last
    \* ---- Profile page
    entries,        \* Profile.entries
    notes,          \* Profile.notes
    profLoading,    \* Profile.loading
    saving,         \* Profile.saving
    profScanning,   \* Profile.scanning
    lastScan,       \* Profile.lastScan: a ProfileScanResult or Null
    showFindings,   \* Profile.showFindings
    toastTitle,     \* title of the last toast
    calls,          \* API calls of the running or last handleScan, in order
    clickEntries,   \* entries when handleScan was last called
    clickNotes,     \* notes when handleScan was last called
    clickLastScan,  \* lastScan when handleScan was last called
    \* ---- the severity colours of a score, on the pages that show one
    essScore,       \* the max_ess the pages are given, in hundredths
    colours,        \* the colour each page renders for it, or Null
    \* ---- backend: the exposure scorer on its own
    scSources,      \* the sources handed to the scorer, each with its findings
    scScores,       \* the per-source scores it returned, or Null
    scPrev,         \* score of the first source before the last added finding
    scAdded,        \* type of the finding added last, or "none"
    \* ---- backend: the pipeline orchestrator, one scan request
    inputs,         \* the sources of the request, in order
    nlpOn,          \* the use_nlp toggle of the request
    modelUp,        \* the disambiguation model can be loaded
    stage,          \* stage of the scan
    task,           \* per source: its task in the current stage
    cands,          \* per source: the candidates the recognizer emitted
    found,          \* per source: its findings so far
    validated,      \* per source: its findings as the validator left them
    cancelRequested,\* a cancellation signal has arrived
    output,         \* the core output returned, or Null
    outcome         \* "none" | "ok" | "no scannable content" | "cancelled"

tabVars == <<activeTab, mode, username, useNlp, scanning, results, error, sent,
             pending, replies, lastHistory, historySaves, historyOutcome, loading,
             reportBody,
             reportOutcome, nlpTouched, nlpAtScan, sourceScores, reportOk>>
authVars == <<token, user, isLoading, lsToken, lsUser, authError, authPending,
              view>>
profileVars == <<entries, notes, profLoading, saving, profScanning, lastScan,
                 showFindings, toastTitle, calls, clickEntries,
                 clickNotes, clickLastScan>>
scorerVars == <<scSources, scScores, scPrev, scAdded>>
pipelineVars == <<inputs, nlpOn, modelUp, stage, task, cands, found, validated,
                  cancelRequested, output, outcome>>
backendVars == <<scorerVars, pipelineVars>>
colourVars == <<essScore, colours>>
clientVars == <<tabVars, authVars, profileVars, colourVars>>
nonTabVars == <<authVars, profileVars, colourVars, backendVars>>
nonAuthVars == <<tabVars, profileVars, colourVars, backendVars>>
nonProfileVars == <<tabVars, authVars, colourVars, backendVars>>
nonColourVars == <<tabVars, authVars, profileVars, backendVars>>
vars == <<clientVars, backendVars>>

\* ------------------------------------------------------------------ bounds

\* Content units (files, pastes, posts) one backend scan covers at most.
MaxSources == 2

\* Entries the profile map holds at most.
MaxEntries == 2

\* Sources one request to the pipeline names at most.
MaxInputs == 2

\* Workers of the pool that runs the per-source tasks.
PoolSize == 1

\* ------------------------------------------------------------ basic values

Null == [null |-> TRUE]
NullStr == "<null>"
Undefined == "<undefined>"

Max2(a, b) == IF a >= b THEN a ELSE b

RECURSIVE SeqSum(_)
SeqSum(s) == IF s = <<>> THEN 0 ELSE Head(s) + SeqSum(Tail(s))

RECURSIVE SeqMax(_)
SeqMax(s) == IF s = <<>> THEN 0 ELSE Max2(Head(s), SeqMax(Tail(s)))

\* Exact fractions for avg_ess.
Rat(n, d) == [num |-> n, den |-> d]
RatAdd(a, b) == Rat(a.num * b.den + b.num * a.den, a.den * b.den)
RatHalf(a) == Rat(a.num, 2 * a.den)
RatEq(a, b) == a.num * b.den = b.num * a.den

\* No page has rendered a score.
ColourIdle ==
    /\ essScore = 0
    /\ colours = Null

\* The Profile page as it mounts, before its load has been answered.
ProfileInit ==
    /\ entries = <<>>
    /\ notes = ""
    /\ profLoading = TRUE
    /\ saving = FALSE
    /\ profScanning = FALSE
    /\ lastScan = Null
    /\ showFindings = FALSE
    /\ toastTitle = NullStr
    /\ calls = <<>>
    /\ clickEntries = <<>>
    /\ clickNotes = ""
    /\ clickLastScan = Null

\* The scorer before it is handed anything.
ScorerIdle ==
    /\ scSources = <<>>
    /\ scScores = Null
    /\ scPrev = 0
    /\ scAdded = "none"

\* The orchestrator before a request has arrived.
PipelineIdle ==
    /\ inputs = <<>>
    /\ nlpOn = FALSE
    /\ modelUp = FALSE
    /\ stage = "Idle"
    /\ task = <<>>
    /\ cands = <<>>
    /\ found = <<>>
    /\ validated = <<>>
    /\ cancelRequested = FALSE
    /\ output = Null
    /\ outcome = "none"

\* ------------------------------------------- backend scan (from the spec)
\* The FastAPI backend is not part of the client sources.  A scan is the
\* sequence of its source outcomes; each outcome is clean or holds one
\* finding with the raw product base * combination * radius of that source.

\* The product of a source before clamping, in hundredths: the floor of the
\* range, the LOW edge, the HIGH edge, and a product above the ceiling.
SourceOutcomes ==
    { [hit |-> FALSE, type |-> "NONE",    risk |-> "None",     raw |-> 0],
      [hit |-> TRUE,  type |-> "PERSON",  risk |-> "Low",      raw |-> 0],
      [hit |-> TRUE,  type |-> "EMAIL",   risk |-> "Low",      raw |-> 250],
      [hit |-> TRUE,  type |-> "PAN",     risk |-> "High",     raw |-> 700],
      [hit |-> TRUE,  type |-> "AADHAAR", risk |-> "Critical", raw |-> 1170] }

\* The outcomes of a scan are listed clean sources first, then by product:
\* nothing below depends on the order of the sources within one scan.
OutcomeRank(o) == IF o.hit THEN o.raw ELSE -1

Scans ==
    { s \in UNION { [1..n -> SourceOutcomes] : n \in 0..MaxSources } :
        \A i \in 1..Len(s), j \in 1..Len(s) :
            i < j => OutcomeRank(s[i]) <= OutcomeRank(s[j]) }

\* The value the recognizer matched, as a sequence of characters.
RawValue(type) ==
    CASE type = "AADHAAR" -> <<"2", "3", "4", "1", "5", "6">>
      [] type = "PAN"     -> <<"A", "B", "C", "P", "E", "1", "F">>
      [] type = "EMAIL"   -> <<"a", "@", "b", ".", "i", "n">>
      [] OTHER            -> <<"R", "a", "v", "i", " ", "K">>

\* value_masked keeps the first two and the last two characters.
Mask(v) ==
    [i \in 1..Len(v) |-> IF i <= 2 \/ i > Len(v) - 2 THEN v[i] ELSE "*"]

\* Score = base_weight * combination_multiplier * radius_multiplier,
\* clamped to [0, 10].
ClampEss(raw) == IF raw < 0 THEN 0 ELSE IF raw > 1000 THEN 1000 ELSE raw

SourceScore(src) == ClampEss(src.raw)

\* [9,10] CRITICAL, [7,9) HIGH, [5,7) MEDIUM, [2.5,5) LOW, [0,2.5) INFO.
LabelOf(score) ==
    IF score >= 900 THEN "CRITICAL"
    ELSE IF score >= 700 THEN "HIGH"
    ELSE IF score >= 500 THEN "MEDIUM"
    ELSE IF score >= 250 THEN "LOW"
    ELSE "INFO"

ColorOf(label) ==
    CASE label = "CRITICAL" -> "#ff0000"
      [] label = "HIGH"     -> "#ff8800"
      [] label = "MEDIUM"   -> "#ffcc00"
      [] label = "LOW"      -> "#00cc00"
      [] OTHER              -> "#888888"

IsHit(src) == src.hit
HitsOf(scan) == SelectSeq(scan, IsHit)

\* The scores of the sources with at least one finding.
PerSourceScores(scan) ==
    [i \in 1..Len(HitsOf(scan)) |-> SourceScore(HitsOf(scan)[i])]

\* The Finding the API client declares (lib/api.ts): `value` next to
\* `value_masked`.
MkFinding(src, platform) ==
    [type         |-> src.type,
     value        |-> RawValue(src.type),
     value_masked |-> Mask(RawValue(src.type)),
     risk         |-> src.risk,
     platform     |-> platform]

FindingsOf(scan, platform) ==
    [i \in 1..Len(HitsOf(scan)) |-> MkFinding(HitsOf(scan)[i], platform)]

\* max_ess = maximum source score, avg_ess = mean across the sources with a
\* finding, label from the bands; null when nothing was found.
EssSummaryOf(scan) ==
    LET scores == PerSourceScores(scan) IN
    IF scores = <<>> THEN Null
    ELSE [max_ess       |-> SeqMax(scores),
          avg_ess       |-> Rat(SeqSum(scores), Len(scores)),
          label         |-> LabelOf(SeqMax(scores)),
          color         |-> ColorOf(LabelOf(SeqMax(scores))),
          total_sources |-> Len(scores),
          all_types     |-> {HitsOf(scan)[i].type : i \in 1..Len(HitsOf(scan))}]

\* The body of a successful scan response.
ScanResponse(scan, platform) ==
    [findings              |-> FindingsOf(scan, platform),
     ess_summary           |-> EssSummaryOf(scan),
     total_sources_scanned |-> Len(scan),
     scan_duration         |-> 1 + Len(scan)]

\* What the server may answer to a scan request: a scan, or a failure.
OkReplies == {[ok |-> TRUE, status |-> 200, detail |-> "", scan |-> s] : s \in Scans}
FailReplies ==
    { [ok |-> FALSE, status |-> 401, detail |-> "", scan |-> <<>>],
      [ok |-> FALSE, status |-> 500, detail |-> "", scan |-> <<>>],
      [ok |-> FALSE, status |-> 500, detail |-> "GitHub rate limit", scan |-> <<>>] }
ScanReplies == OkReplies \cup FailReplies

\* --------------------------------------------------- API client (lib/api.ts)

\* post(): the request as sent, with the Authorization header getToken() gives.
Post(endpoint, body) ==
    [endpoint      |-> endpoint,
     authorization |-> IF lsToken # NullStr /\ lsToken # "" THEN lsToken ELSE NullStr,
     body          |-> body]

\* post(): the message of the Error thrown for a response that is not ok.
PostError(reply) ==
    IF reply.status = 401 THEN "Session expired. Please log in again."
    ELSE IF reply.detail # "" THEN reply.detail
    ELSE "API error 500"

scanGithubSingle(repo, branch, maxFiles, nlp) ==
    Post("/scan/github/single",
         [repo |-> repo, branch |-> branch, max_files |-> maxFiles, use_nlp |-> nlp])

scanGithubUser(name, maxRepos, maxFilesPerRepo, nlp) ==
    Post("/scan/github/user",
         [username |-> name, max_repos |-> maxRepos,
          max_files_per_repo |-> maxFilesPerRepo, use_nlp |-> nlp])

scanPastebin(limit, nlp) ==
    Post("/scan/pastebin", [limit |-> limit, use_nlp |-> nlp])

\* Faulty variant of scanSocial: the toggle is dropped and the default is sent.
scanSocialNlpDropped(opts) ==
    Post("/scan/social",
         [reddit_username  |-> NullStr,
          reddit_max_posts |-> 20,
          telegram_messages_per_channel |-> 50,
          use_nlp          |-> FALSE])

\* opts.use_nlp || false
scanSocial(opts) ==
    Post("/scan/social",
         [reddit_username  |-> IF opts.reddit_username \in {Undefined, ""}
                               THEN NullStr ELSE opts.reddit_username,
          reddit_max_posts |-> IF opts.reddit_max_posts = 0
                               THEN 20 ELSE opts.reddit_max_posts,
          telegram_messages_per_channel |->
                               IF opts.telegram_messages_per_channel = 0
                               THEN 50 ELSE opts.telegram_messages_per_channel,
          use_nlp          |-> IF opts.use_nlp THEN opts.use_nlp ELSE FALSE])

\* JSON.stringify leaves out a property whose value is undefined; `optional`
\* are the string-valued properties that may be.
JsonStringify(rec, optional) ==
    LET keep == {k \in DOMAIN rec : k \notin optional \/ rec[k] # Undefined}
    IN [k \in keep |-> rec[k]]

\* saveScanHistory(item): the body of POST /history/save.
saveScanHistory(item) == JsonStringify(item, {"scan_type", "target"})

\* ------------------------------------------------------ the four scan tabs

Tabs == {"github", "pastebin", "social", "combined"}
Usernames == {"", "octocat"}
DefaultRepo == "ceddarCoder/1b-1"

\* The platform the backend stamps on the findings of a request.
PlatformOf(slot) == slot

\* The requests handleScan of the mounted tab sends, by slot.
RequestsOf(tab) ==
    CASE tab = "github" ->
           [s \in {"github"} |->
              IF mode = "single"
              THEN scanGithubSingle(DefaultRepo, "main", 40, useNlp)
              ELSE scanGithubUser(username, 5, 40, useNlp)]
      [] tab = "pastebin" ->
           [s \in {"pastebin"} |-> scanPastebin(15, useNlp)]
      [] tab = "social" ->
           [s \in {"social"} |->
              scanSocial([reddit_username |-> "",
                          reddit_max_posts |-> 20,
                          telegram_messages_per_channel |-> 50,
                          use_nlp |-> useNlp])]
      [] tab = "combined" ->
           [s \in {"github", "pastebin"} |->
              IF s = "github"
              THEN scanGithubSingle(DefaultRepo, "main", 40, useNlp)
              ELSE scanPastebin(10, useNlp)]

\* The scan button's `disabled` attribute.
ScanDisabled(tab) ==
    \/ scanning
    \/ tab = "github" /\ mode = "user" /\ username = ""

\* CombinedTab.handleScan: `summary?.max_ess || 0`.
MaxEssOr0(summary) ==
    IF summary = Null THEN 0
    ELSE IF summary.max_ess = 0 THEN 0 ELSE summary.max_ess

\* CombinedTab.handleScan: `summary?.avg_ess || 0`.
AvgEssOr0(summary) ==
    IF summary = Null THEN Rat(0, 1)
    ELSE IF summary.avg_ess.num = 0 THEN Rat(0, 1) ELSE summary.avg_ess

\* CombinedTab.handleScan: `summary?.label || "Unknown"`.
LabelOrUnknown(summary) ==
    IF summary = Null THEN "Unknown"
    ELSE IF summary.label = "" THEN "Unknown" ELSE summary.label

\* CombinedTab.handleScan: `summary?.color || "#888"`.
ColorOrGrey(summary) ==
    IF summary = Null THEN "#888"
    ELSE IF summary.color = "" THEN "#888" ELSE summary.color

TotalSourcesOr0(summary) == IF summary = Null THEN 0 ELSE summary.total_sources
AllTypesOrNone(summary) == IF summary = Null THEN {} ELSE summary.all_types

\* Faulty variant of CombinedHasSummary: `&&` in place of `||`.
CombinedHasSummaryBoth(gh, pb) == gh.ess_summary # Null /\ pb.ess_summary # Null

\* Faulty variant of CombinedMaxEss: the two maxima added up.
CombinedMaxEssSum(gh, pb) ==
    MaxEssOr0(gh.ess_summary) + MaxEssOr0(pb.ess_summary)

\* Faulty variant of CombinedMaxEss: only the GitHub summary looked at.
CombinedMaxEssGithubOnly(gh, pb) == MaxEssOr0(gh.ess_summary)

\* CombinedTab.handleScan: the condition `gh.ess_summary || pb.ess_summary`.
CombinedHasSummary(gh, pb) == gh.ess_summary # Null \/ pb.ess_summary # Null

CombinedMaxEss(gh, pb) ==
    Max2(MaxEssOr0(gh.ess_summary), MaxEssOr0(pb.ess_summary))

CombinedAvgEss(gh, pb) ==
    RatHalf(RatAdd(AvgEssOr0(gh.ess_summary), AvgEssOr0(pb.ess_summary)))

CombinedLabel(gh, pb) ==
    IF MaxEssOr0(gh.ess_summary) >= MaxEssOr0(pb.ess_summary)
    THEN LabelOrUnknown(gh.ess_summary)
    ELSE LabelOrUnknown(pb.ess_summary)

CombinedColor(gh, pb) ==
    IF MaxEssOr0(gh.ess_summary) >= MaxEssOr0(pb.ess_summary)
    THEN ColorOrGrey(gh.ess_summary)
    ELSE ColorOrGrey(pb.ess_summary)

\* CombinedTab.handleScan: the merged ScanResponse.
Combined(gh, pb) ==
    [findings    |-> gh.findings \o pb.findings,
     ess_summary |->
        IF CombinedHasSummary(gh, pb)
        THEN [max_ess       |-> CombinedMaxEss(gh, pb),
              avg_ess       |-> CombinedAvgEss(gh, pb),
              label         |-> CombinedLabel(gh, pb),
              color         |-> CombinedColor(gh, pb),
              total_sources |-> TotalSourcesOr0(gh.ess_summary)
                                + TotalSourcesOr0(pb.ess_summary),
              all_types     |-> AllTypesOrNone(gh.ess_summary)
                                \cup AllTypesOrNone(pb.ess_summary)]
        ELSE Null,
     total_sources_scanned |-> gh.total_sources_scanned + pb.total_sources_scanned,
     scan_duration         |-> Max2(gh.scan_duration, pb.scan_duration)]

\* What setResults receives once every request of the scan is fulfilled.
ResultsOf(tab, got) ==
    IF tab = "combined"
    THEN Combined(ScanResponse(got["github"].scan, PlatformOf("github")),
                  ScanResponse(got["pastebin"].scan, PlatformOf("pastebin")))
    ELSE ScanResponse(got[tab].scan, PlatformOf(tab))

\* The per-source scores of the scans behind those results.
ScoresBehind(tab, got) ==
    IF tab = "combined"
    THEN PerSourceScores(got["github"].scan) \o PerSourceScores(got["pastebin"].scan)
    ELSE PerSourceScores(got[tab].scan)

\* The scanType and target props the tab passes to ScanResults.
ScanTypeProp(tab) == IF tab = "combined" THEN Undefined ELSE tab

TargetOf(tab, m, u) ==
    CASE tab = "github" ->
           IF m = "single" THEN DefaultRepo
           ELSE IF u = "" THEN "user:" ELSE "user:octocat"
      [] tab = "pastebin" -> "pastebin_recent_15"
      [] tab = "social"   -> "social"
      [] tab = "combined" -> Undefined

TargetProp(tab) == TargetOf(tab, mode, username)

\* ------------------------------------ ScanResults and ReportDownloadButton

\* Faulty variant of HistoryItem: the findings saved along with the counters.
HistoryItemWithFindings(res, scanType, target) ==
    [scan_type       |-> scanType,
     target          |-> target,
     findings        |-> res.findings,
     findings_count  |-> Len(res.findings),
     max_ess         |-> IF res.ess_summary = Null THEN 0 ELSE res.ess_summary.max_ess,
     ess_label       |-> IF res.ess_summary = Null THEN "" ELSE res.ess_summary.label,
     sources_scanned |-> res.total_sources_scanned,
     scan_duration   |-> res.scan_duration]

\* ScanResults: the item its mount effect hands to saveScanHistory.
HistoryItem(res, scanType, target) ==
    [scan_type       |-> scanType,
     target          |-> target,
     findings_count  |-> Len(res.findings),
     max_ess         |-> IF res.ess_summary = Null THEN 0 ELSE res.ess_summary.max_ess,
     ess_label       |-> IF res.ess_summary = Null THEN "" ELSE res.ess_summary.label,
     sources_scanned |-> res.total_sources_scanned,
     scan_duration   |-> res.scan_duration]

\* ReportDownloadButton.handleDownload: the body of POST /report/html.
ReportBody(findings, scanType, target, filesScanned) ==
    JsonStringify([findings      |-> findings,
                   ess_results   |-> <<>>,
                   scan_type     |-> scanType,
                   target        |-> target,
                   files_scanned |-> filesScanned],
                  {"scan_type", "target"})

\* handleDownload after the response: `target.replace(...)` throws a
\* TypeError on an undefined target, and the catch block raises the alert.
DownloadOutcome(ok, target) ==
    IF ~ok THEN "alert"
    ELSE IF target = Undefined THEN "alert"
    ELSE "downloaded"

\* ESSGauge: pct = max_ess / 10 * 100, in hundredths of a percent.
GaugePct(summary) == (summary.max_ess * 100) \div 10

\* The tab renders `results && <ScanResults ... />`.
ScanResultsMounted(res) == res # Null

\* Faulty variant of EffectRuns: an effect without a dependency array.
EffectRunsEveryRender(wasMounted, isMounted) == isMounted

\* ScanResults: useEffect(..., []) runs after the render that mounts the
\* component and after no later render of it.
EffectRuns(wasMounted, isMounted) == ~wasMounted /\ isMounted

\* ------------------------------------------------------------ tab actions

NoRequests == [s \in {} |-> Null]

\* A tab as it mounts.
TabMount(tab) ==
    /\ activeTab' = tab
    /\ mode' = "single"
    /\ username' = ""
    /\ useNlp' = FALSE
    /\ scanning' = FALSE
    /\ results' = Null
    /\ error' = NullStr
    /\ sent' = NoRequests
    /\ pending' = {}
    /\ replies' = NoRequests
    /\ lastHistory' = Null
    /\ historySaves' = 0
    /\ historyOutcome' = "none"
    /\ loading' = FALSE
    /\ reportBody' = Null
    /\ reportOutcome' = "none"
    /\ nlpTouched' = FALSE
    /\ nlpAtScan' = FALSE
    /\ sourceScores' = <<>>
    /\ reportOk' = FALSE

TabInit ==
    /\ activeTab = "github"
    /\ mode = "single"
    /\ username = ""
    /\ useNlp = FALSE
    /\ scanning = FALSE
    /\ results = Null
    /\ error = NullStr
    /\ sent = NoRequests
    /\ pending = {}
    /\ replies = NoRequests
    /\ lastHistory = Null
    /\ historySaves = 0
    /\ historyOutcome = "none"
    /\ loading = FALSE
    /\ reportBody = Null
    /\ reportOutcome = "none"
    /\ nlpTouched = FALSE
    /\ nlpAtScan = FALSE
    /\ sourceScores = <<>>
    /\ reportOk = FALSE

\* The render that follows a state update of the mounted tab, with the
\* effect of ScanResults when it runs.
RenderScanResults ==
    IF EffectRuns(ScanResultsMounted(results), ScanResultsMounted(results'))
    THEN /\ lastHistory' = saveScanHistory(
                HistoryItem(results', ScanTypeProp(activeTab'),
                            TargetOf(activeTab', mode', username')))
         /\ historySaves' = historySaves + 1
         /\ historyOutcome' = "pending"
    ELSE UNCHANGED <<lastHistory, historySaves, historyOutcome>>

\* Faulty variant of HistoryCatch: the rejection is shown as the tab's error.
HistoryCatchShowingError(shown, reply) == PostError(reply)

\* ScanResults: `.catch(() => {})` on the promise saveScanHistory returns;
\* the error the tab shows is left as it is.
HistoryCatch(shown, reply) == shown

\* The request of the history save is answered.
HistoryAnswered(reply) ==
    /\ historyOutcome = "pending"
    /\ historyOutcome' = IF reply.ok THEN "saved" ELSE "ignored"
    /\ error' = IF reply.ok THEN error ELSE HistoryCatch(error, reply)
    /\ UNCHANGED <<activeTab, mode, username, useNlp, scanning, results, sent,
                   pending, replies, lastHistory, historySaves, loading,
                   reportBody, reportOutcome, nlpTouched, nlpAtScan,
                   sourceScores, reportOk>>
    /\ UNCHANGED nonTabVars

\* Index: a click on another tab unmounts the tab and mounts the other one.
SetActiveTab(tab) ==
    /\ tab # activeTab
    /\ reportOutcome # "requested"
    /\ TabMount(tab)
    /\ UNCHANGED nonTabVars

\* GithubTab: the mode buttons.
SetMode(m) ==
    /\ activeTab = "github"
    /\ m # mode
    /\ mode' = m
    /\ UNCHANGED <<activeTab, username, useNlp, scanning, results, error, sent,
                   pending, replies, loading, reportBody,
                   reportOutcome, nlpTouched, nlpAtScan, sourceScores, reportOk>>
    /\ RenderScanResults
    /\ UNCHANGED nonTabVars

\* GithubTab: the username input.
SetUsername(u) ==
    /\ activeTab = "github"
    /\ mode = "user"
    /\ u # username
    /\ username' = u
    /\ UNCHANGED <<activeTab, mode, useNlp, scanning, results, error, sent,
                   pending, replies, loading, reportBody,
                   reportOutcome, nlpTouched, nlpAtScan, sourceScores, reportOk>>
    /\ RenderScanResults
    /\ UNCHANGED nonTabVars

\* The NLP Filter button of the mounted tab: setUseNlp(!useNlp).
ToggleNlp ==
    /\ useNlp' = ~useNlp
    /\ nlpTouched' = TRUE
    /\ UNCHANGED <<activeTab, mode, username, scanning, results, error, sent,
                   pending, replies, loading, reportBody,
                   reportOutcome, nlpAtScan, sourceScores, reportOk>>
    /\ RenderScanResults
    /\ UNCHANGED nonTabVars

\* Faulty variant of HandleScan: setError(null) is left out.
HandleScanKeepingError ==
    /\ ~ScanDisabled(activeTab)
    /\ reportOutcome # "requested"
    /\ scanning' = TRUE
    /\ results' = Null
    /\ sent' = RequestsOf(activeTab)
    /\ pending' = DOMAIN RequestsOf(activeTab)
    /\ replies' = NoRequests
    /\ nlpAtScan' = useNlp
    /\ lastHistory' = Null
    /\ historySaves' = 0
    /\ historyOutcome' = "none"
    /\ loading' = FALSE
    /\ reportBody' = Null
    /\ reportOutcome' = "none"
    /\ reportOk' = FALSE
    /\ sourceScores' = <<>>
    /\ UNCHANGED <<error, activeTab, mode, username, useNlp, nlpTouched>>
    /\ UNCHANGED nonTabVars

\* handleScan up to its await: the three state updates and the requests.
\* Clearing the results unmounts ScanResults and its download button.
HandleScan ==
    /\ ~ScanDisabled(activeTab)
    /\ reportOutcome # "requested"
    /\ scanning' = TRUE
    /\ error' = NullStr
    /\ results' = Null
    /\ sent' = RequestsOf(activeTab)
    /\ pending' = DOMAIN RequestsOf(activeTab)
    /\ replies' = NoRequests
    /\ nlpAtScan' = useNlp
    /\ lastHistory' = Null
    /\ historySaves' = 0
    /\ historyOutcome' = "none"
    /\ loading' = FALSE
    /\ reportBody' = Null
    /\ reportOutcome' = "none"
    /\ reportOk' = FALSE
    /\ sourceScores' = <<>>
    /\ UNCHANGED <<activeTab, mode, username, useNlp, nlpTouched>>
    /\ UNCHANGED nonTabVars

\* Faulty variant of ScanFails: the answers already fulfilled are shown.
ScanFailsShowingPartial(slot, reply) ==
    /\ slot \in pending
    /\ ~reply.ok
    /\ error' = PostError(reply)
    /\ scanning' = FALSE
    /\ results' = IF replies = NoRequests THEN results
                  ELSE LET s == CHOOSE t \in DOMAIN replies : TRUE
                       IN ScanResponse(replies[s].scan, PlatformOf(s))
    /\ pending' = {}
    /\ replies' = NoRequests
    /\ UNCHANGED <<activeTab, mode, username, useNlp, sent, loading,
                   reportBody, reportOutcome, nlpTouched, nlpAtScan,
                   sourceScores, reportOk>>
    /\ RenderScanResults
    /\ UNCHANGED nonTabVars

\* A request of the scan is rejected: the await throws (Promise.all rejects
\* on the first rejection), the catch block sets the error, and finally ends
\* the scan.  The answer to the other request is never looked at.
ScanFails(slot, reply) ==
    /\ slot \in pending
    /\ ~reply.ok
    /\ error' = PostError(reply)
    /\ scanning' = FALSE
    /\ pending' = {}
    /\ replies' = NoRequests
    /\ UNCHANGED <<activeTab, mode, username, useNlp, results, sent, loading,
                   reportBody, reportOutcome, nlpTouched, nlpAtScan,
                   sourceScores, reportOk>>
    /\ RenderScanResults
    /\ UNCHANGED nonTabVars

\* A request of a combined scan is fulfilled while the other is still out.
ScanPartlyAnswered(slot, reply) ==
    /\ slot \in pending
    /\ pending # {slot}
    /\ reply.ok
    /\ pending' = pending \ {slot}
    /\ replies' = [s \in DOMAIN replies \cup {slot} |->
                     IF s = slot THEN reply ELSE replies[s]]
    /\ UNCHANGED <<activeTab, mode, username, useNlp, scanning, results, error,
                   sent, loading, reportBody, reportOutcome,
                   nlpTouched, nlpAtScan, sourceScores, reportOk>>
    /\ RenderScanResults
    /\ UNCHANGED nonTabVars

\* The last request of the scan is fulfilled: setResults, then finally ends
\* the scan; ScanResults mounts and its effect saves the history item.
ScanSucceeds(slot, reply) ==
    /\ pending = {slot}
    /\ reply.ok
    /\ LET got == [s \in DOMAIN replies \cup {slot} |->
                     IF s = slot THEN reply ELSE replies[s]]
           res == ResultsOf(activeTab, got)
       IN /\ results' = res
          /\ sourceScores' = ScoresBehind(activeTab, got)
    /\ scanning' = FALSE
    /\ pending' = {}
    /\ replies' = NoRequests
    /\ UNCHANGED <<activeTab, mode, username, useNlp, error, sent, loading,
                   reportBody, reportOutcome, nlpTouched, nlpAtScan, reportOk>>
    /\ RenderScanResults
    /\ UNCHANGED nonTabVars

\* ReportDownloadButton.handleDownload up to its await.  The button is
\* rendered only for results with findings and disabled while loading.
HandleDownload ==
    /\ results # Null
    /\ Len(results.findings) > 0
    /\ ~loading
    /\ loading' = TRUE
    /\ reportBody' = ReportBody(results.findings, ScanTypeProp(activeTab),
                                TargetProp(activeTab), results.total_sources_scanned)
    /\ reportOutcome' = "requested"
    /\ reportOk' = FALSE
    /\ UNCHANGED <<activeTab, mode, username, useNlp, scanning, results, error,
                   sent, pending, replies, nlpTouched, nlpAtScan,
                   sourceScores>>
    /\ RenderScanResults
    /\ UNCHANGED nonTabVars

\* handleDownload after the response arrived.
ReportAnswered(ok) ==
    /\ reportOutcome = "requested"
    /\ reportOk' = ok
    /\ reportOutcome' =
         DownloadOutcome(ok, IF "target" \in DOMAIN reportBody
                             THEN reportBody.target ELSE Undefined)
    /\ loading' = FALSE
    /\ UNCHANGED <<activeTab, mode, username, useNlp, scanning, results, error,
                   sent, pending, replies, reportBody, nlpTouched,
                   nlpAtScan, sourceScores>>
    /\ RenderScanResults
    /\ UNCHANGED nonTabVars

\* The session the scan pages run in: restored and logged in.
LoggedIn ==
    /\ token = "tok-alice"
    /\ user = [email |-> "alice@example.in", full_name |-> "Alice"]
    /\ isLoading = FALSE
    /\ lsToken = "tok-alice"
    /\ lsUser = [json |-> "object",
                 value |-> [email |-> "alice@example.in", full_name |-> "Alice"]]
    /\ authError = NullStr
    /\ authPending = "none"
    /\ view = "children"

ClientInit == TabInit /\ LoggedIn /\ ProfileInit /\ ColourIdle

Init == ClientInit /\ ScorerIdle /\ PipelineIdle

Next ==
    \/ \E tab \in Tabs : SetActiveTab(tab)
    \/ \E m \in {"single", "user"} : SetMode(m)
    \/ \E u \in Usernames : SetUsername(u)
    \/ ToggleNlp
    \/ HandleScan
    \/ \E slot \in Tabs, reply \in FailReplies : ScanFails(slot, reply)
    \/ \E slot \in Tabs, reply \in OkReplies : ScanPartlyAnswered(slot, reply)
    \/ \E slot \in Tabs, reply \in OkReplies : ScanSucceeds(slot, reply)
    \/ HandleDownload
    \/ \E ok \in BOOLEAN : ReportAnswered(ok)

Spec == Init /\ [][Next]_vars

\* The scan tabs together with the answers to their history saves.
NextHistory ==
    \/ \E tab \in Tabs : SetActiveTab(tab)
    \/ \E m \in {"single", "user"} : SetMode(m)
    \/ ToggleNlp
    \/ HandleScan
    \/ \E slot \in Tabs, reply \in FailReplies : ScanFails(slot, reply)
    \/ \E slot \in Tabs, reply \in OkReplies : ScanPartlyAnswered(slot, reply)
    \/ \E slot \in Tabs, reply \in OkReplies : ScanSucceeds(slot, reply)
    \/ \E reply \in FailReplies \cup {[ok |-> TRUE, status |-> 200,
                                       detail |-> "", scan |-> <<>>]} :
          HistoryAnswered(reply)

SpecHistory == Init /\ [][NextHistory]_vars

\* ------------------------------------- AuthProvider and ProtectedRoute

Accounts == {"alice", "bob"}

UserOf(account) ==
    IF account = "alice"
    THEN [email |-> "alice@example.in", full_name |-> "Alice"]
    ELSE [email |-> "bob@example.in", full_name |-> "Bob"]

TokenOf(account) == IF account = "alice" THEN "tok-alice" ELSE "tok-bob"

\* A string kept under aegis_user: the JSON text of an object, the text
\* `null`, or text that is no JSON.
JsonOfUser(u) == [json |-> "object", value |-> u]
JsonNull == [json |-> "null", value |-> Null]
NotJson == [json |-> "garbage", value |-> Null]

\* JSON.parse: the value, or a SyntaxError.
JsonParseThrows(text) == text.json = "garbage"
JsonParse(text) == IF text.json = "object" THEN text.value ELSE Null

StoredTokens == {NullStr} \cup {TokenOf(a) : a \in Accounts}
StoredUsers == {Null, JsonNull, NotJson} \cup {JsonOfUser(UserOf(a)) : a \in Accounts}

\* AuthProvider: isAuthenticated = !!token && !!user.
IsAuthenticated(tok, usr) == tok # NullStr /\ tok # "" /\ usr # Null

\* Faulty variant of ProtectedRouteView: the authentication test made first.
ProtectedRouteViewAuthFirst(loadingNow, authenticated) ==
    IF ~authenticated THEN "login"
    ELSE IF loadingNow THEN "spinner"
    ELSE "children"

\* ProtectedRoute: the spinner while loading, else the redirect unless
\* authenticated, else the children.
ProtectedRouteView(loadingNow, authenticated) ==
    IF loadingNow THEN "spinner"
    ELSE IF ~authenticated THEN "login"
    ELSE "children"

\* The first render of AuthProvider, before its mount effect ran, over
\* whatever an earlier session left in localStorage.
AuthInit ==
    /\ token = NullStr
    /\ user = Null
    /\ isLoading = TRUE
    /\ lsToken \in StoredTokens
    /\ lsUser \in StoredUsers
    /\ authError = NullStr
    /\ authPending = "none"
    /\ view = ProtectedRouteView(TRUE, IsAuthenticated(NullStr, Null))

\* The mount effect: restore from localStorage, then setIsLoading(false).
\* setToken has run already when JSON.parse throws.
RestoreEffect ==
    /\ isLoading
    /\ IF lsToken # NullStr /\ lsToken # "" /\ lsUser # Null
       THEN IF JsonParseThrows(lsUser)
            THEN /\ token' = lsToken
                 /\ user' = user
                 /\ lsToken' = NullStr
                 /\ lsUser' = Null
            ELSE /\ token' = lsToken
                 /\ user' = JsonParse(lsUser)
                 /\ UNCHANGED <<lsToken, lsUser>>
       ELSE UNCHANGED <<token, user, lsToken, lsUser>>
    /\ isLoading' = FALSE
    /\ view' = ProtectedRouteView(isLoading', IsAuthenticated(token', user'))
    /\ UNCHANGED <<authError, authPending>>
    /\ UNCHANGED nonAuthVars

\* The login or register form is submitted: the fetch goes out.
SubmitAuth(kind) ==
    /\ ~isLoading
    /\ authPending = "none"
    /\ authPending' = kind
    /\ UNCHANGED <<token, user, isLoading, lsToken, lsUser, authError, view>>
    /\ UNCHANGED nonAuthVars

\* login / register with an ok response: store, then set token and user.
SignedIn(kind, account) ==
    /\ authPending = kind
    /\ authPending' = "none"
    /\ lsToken' = TokenOf(account)
    /\ lsUser' = JsonOfUser(UserOf(account))
    /\ token' = TokenOf(account)
    /\ user' = UserOf(account)
    /\ authError' = NullStr
    /\ view' = ProtectedRouteView(isLoading, IsAuthenticated(token', user'))
    /\ UNCHANGED isLoading
    /\ UNCHANGED nonAuthVars

\* Faulty variant of SignInFails: the session is cleared before the throw.
SignInFailsClearing(kind, detail, default) ==
    /\ authPending = kind
    /\ authPending' = "none"
    /\ authError' = IF detail # "" THEN detail ELSE default
    /\ lsToken' = NullStr
    /\ lsUser' = Null
    /\ token' = NullStr
    /\ user' = Null
    /\ view' = ProtectedRouteView(isLoading, IsAuthenticated(token', user'))
    /\ UNCHANGED isLoading
    /\ UNCHANGED nonAuthVars

\* login / register with a response that is not ok: throw err.detail or the
\* default message.
SignInFails(kind, detail, default) ==
    /\ authPending = kind
    /\ authPending' = "none"
    /\ authError' = IF detail # "" THEN detail ELSE default
    /\ UNCHANGED <<token, user, isLoading, lsToken, lsUser, view>>
    /\ UNCHANGED nonAuthVars

Login(account) == SignedIn("login", account)
LoginFails(detail) == SignInFails("login", detail, "Login failed")
Register(account) == SignedIn("register", account)
RegisterFails(detail) == SignInFails("register", detail, "Registration failed")

Logout ==
    /\ ~isLoading
    /\ lsToken' = NullStr
    /\ lsUser' = Null
    /\ token' = NullStr
    /\ user' = Null
    /\ view' = ProtectedRouteView(isLoading, IsAuthenticated(token', user'))
    /\ UNCHANGED <<isLoading, authError, authPending>>
    /\ UNCHANGED nonAuthVars

ErrorDetails == {"", "Invalid credentials", "Email already registered"}

InitAuth ==
    AuthInit /\ TabInit /\ ProfileInit /\ ColourIdle /\ ScorerIdle /\ PipelineIdle

NextAuth ==
    \/ RestoreEffect
    \/ \E kind \in {"login", "register"} : SubmitAuth(kind)
    \/ \E a \in Accounts : Login(a)
    \/ \E d \in ErrorDetails : LoginFails(d)
    \/ \E a \in Accounts : Register(a)
    \/ \E d \in ErrorDetails : RegisterFails(d)
    \/ Logout

SpecAuth == InitAuth /\ [][NextAuth]_vars

\* ------------------------------- backend: the exposure scorer (from the spec)
\* Multipliers and weights are kept in hundredths, like the scores.

\* README, "Toxic Combination Multipliers".
ToxicRules ==
    { [types |-> {"AADHAAR", "PAN", "PHONE"}, mult |-> 190],
      [types |-> {"CARD", "AADHAAR"},         mult |-> 185],
      [types |-> {"CARD", "PAN"},             mult |-> 175],
      [types |-> {"UPI", "PHONE"},            mult |-> 160],
      [types |-> {"AADHAAR", "PAN"},          mult |-> 155] }

ToxicTypes == UNION {r.types : r \in ToxicRules}

\* README, "Supported PII Types": the risk level of an entity type.
RiskOfType(type) ==
    CASE type \in {"AADHAAR", "CARD"} -> "Critical"
      [] type \in {"PAN", "GSTIN"}    -> "High"
      [] type \in {"UPI", "PHONE"}    -> "Medium"
      [] OTHER                        -> "Low"

\* The fixed base sensitivity weight of a risk tier:
\* Critical > High > Medium > Low.
BaseWeight(risk) ==
    CASE risk = "Critical" -> 500
      [] risk = "High"     -> 400
      [] risk = "Medium"   -> 350
      [] OTHER             -> 250

\* The exposure-radius multiplier of a source's visibility.
RadiusMultiplier(visibility) ==
    CASE visibility = "public"   -> 130
      [] visibility = "unlisted" -> 100
      [] OTHER                   -> 80

SetMax(S) == CHOOSE x \in S : \A y \in S : y <= x

TypesIn(fs) == {f.type : f \in fs}

\* Faulty variant of SourceBaseWeight: the mean of the findings' weights.
SourceBaseWeightMean(fs) ==
    LET Sum[S \in SUBSET fs] ==
            IF S = {} THEN 0
            ELSE LET f == CHOOSE g \in S : TRUE
                 IN BaseWeight(f.risk) + Sum[S \ {f}]
    IN IF fs = {} THEN 0 ELSE Sum[fs] \div Cardinality(fs)

\* The base weight of a source: that of its most sensitive finding.
SourceBaseWeight(fs) ==
    IF fs = {} THEN 0 ELSE SetMax({BaseWeight(f.risk) : f \in fs})

\* Faulty variant of CombinationMultiplier: the matching rules stack.
CombinationMultiplierStacked(types) ==
    LET Prod[R \in SUBSET ToxicRules] ==
            IF R = {} THEN 100
            ELSE LET r == CHOOSE q \in R : TRUE
                 IN (r.mult * Prod[R \ {r}]) \div 100
    IN Prod[{r \in ToxicRules : r.types \subseteq types}]

\* The single highest multiplier among the rules whose types are all among
\* the types of the source; 1.00 when no rule matches.
CombinationMultiplier(types) ==
    SetMax({100} \cup {r.mult : r \in {q \in ToxicRules : q.types \subseteq types}})

\* Score = base_weight * combination_multiplier * radius_multiplier, clamped.
ScoreOfSource(fs, visibility) ==
    [multiplier |-> CombinationMultiplier(TypesIn(fs)),
     score      |-> ClampEss((SourceBaseWeight(fs)
                              * CombinationMultiplier(TypesIn(fs))
                              * RadiusMultiplier(visibility)) \div 10000)]

\* Faulty variant of ScoreSources: combinations looked up across sources.
ScoreSourcesPooled(srcs) ==
    [i \in 1..Len(srcs) |->
        LET pool == UNION {TypesIn(srcs[j].findings) : j \in 1..Len(srcs)}
        IN [multiplier |-> CombinationMultiplier(pool),
            score      |-> ClampEss((SourceBaseWeight(srcs[i].findings)
                                     * CombinationMultiplier(pool)
                                     * RadiusMultiplier(srcs[i].visibility))
                                    \div 10000)]]

\* The scorer: every source is scored from its own findings.
ScoreSources(srcs) ==
    [i \in 1..Len(srcs) |-> ScoreOfSource(srcs[i].findings, srcs[i].visibility)]

\* A finding of a type, as the validator promotes it.
FindingOfType(type) == [type |-> type, risk |-> RiskOfType(type)]

\* The scorer is handed two sources: one with any findings and visibility,
\* and a public one with at most one finding.
ScorerInit ==
    /\ \E types \in SUBSET (ToxicTypes \cup {"EMAIL"}),
          v \in {"public", "unlisted", "private"},
          other \in {{}} \cup {{t} : t \in ToxicTypes} :
          scSources = << [findings   |-> {FindingOfType(t) : t \in types},
                          visibility |-> v],
                         [findings   |-> {FindingOfType(t) : t \in other},
                          visibility |-> "public"] >>
    /\ scScores = Null
    /\ scPrev = 0
    /\ scAdded = "none"

\* The scorer runs.
ComputeScores ==
    /\ scScores = Null
    /\ scScores' = ScoreSources(scSources)
    /\ UNCHANGED <<scSources, scPrev, scAdded>>
    /\ UNCHANGED <<clientVars, pipelineVars>>

\* A finding of a toxic-combination type is added to the first source, and
\* the scorer runs again.
AddFinding(type) ==
    /\ scScores # Null
    /\ type \notin TypesIn(scSources[1].findings)
    /\ scPrev' = scScores[1].score
    /\ scAdded' = type
    /\ scSources' = [scSources EXCEPT
                       ![1].findings = @ \cup {FindingOfType(type)}]
    /\ scScores' = ScoreSources(scSources')
    /\ UNCHANGED <<clientVars, pipelineVars>>

NextScorer ==
    \/ ComputeScores
    \/ \E type \in ToxicTypes : AddFinding(type)

InitScorer == ClientInit /\ PipelineIdle /\ ScorerInit

SpecScorer == InitScorer /\ [][NextScorer]_vars

\* ------------------------- backend: the detection pipeline (from the spec)
\* Raw values are sequences of characters; confidences and probabilities are
\* in hundredths.

DigitChars == <<"0", "1", "2", "3", "4", "5", "6", "7", "8", "9">>
Letters == {"A", "B", "C", "D", "E", "F", "G", "H", "I", "J", "K", "L", "M",
            "N", "O", "P", "Q", "R", "S", "T", "U", "V", "W", "X", "Y", "Z"}

IsDigits(v) == \A i \in 1..Len(v) : \E d \in 1..10 : DigitChars[d] = v[i]
DigitOf(ch) == (CHOOSE d \in 1..10 : DigitChars[d] = ch) - 1

\* Verhoeff: the multiplication table of the dihedral group D5 and the
\* permutation table, both indexed from 0 in the algorithm.
VerhoeffD ==
    << <<0,1,2,3,4,5,6,7,8,9>>, <<1,2,3,4,0,6,7,8,9,5>>,
       <<2,3,4,0,1,7,8,9,5,6>>, <<3,4,0,1,2,8,9,5,6,7>>,
       <<4,0,1,2,3,9,5,6,7,8>>, <<5,9,8,7,6,0,4,3,2,1>>,
       <<6,5,9,8,7,1,0,4,3,2>>, <<7,6,5,9,8,2,1,0,4,3>>,
       <<8,7,6,5,9,3,2,1,0,4>>, <<9,8,7,6,5,4,3,2,1,0>> >>

VerhoeffP ==
    << <<0,1,2,3,4,5,6,7,8,9>>, <<1,5,7,6,2,8,3,0,9,4>>,
       <<5,8,0,3,7,9,6,1,4,2>>, <<8,9,1,6,0,4,3,5,2,7>>,
       <<9,4,5,3,1,2,6,8,7,0>>, <<4,2,8,6,5,7,3,9,0,1>>,
       <<2,7,9,3,8,0,6,4,1,5>>, <<7,0,4,6,9,1,3,2,5,8>> >>

\* Aadhaar: 12 digits, processed right to left; valid iff the accumulator
\* ends at 0.
VerhoeffValid(v) ==
    LET Acc[k \in 0..Len(v)] ==
            IF k = 0 THEN 0
            ELSE VerhoeffD[Acc[k - 1] + 1]
                          [VerhoeffP[((k - 1) % 8) + 1]
                                    [DigitOf(v[Len(v) - k + 1]) + 1] + 1]
    IN Len(v) = 12 /\ IsDigits(v) /\ Acc[Len(v)] = 0

\* Card numbers: every second digit from the right is doubled, 9 subtracted
\* when the double exceeds 9; valid iff the sum is a multiple of 10.
LuhnValid(v) ==
    LET Term(k) == LET d == DigitOf(v[Len(v) - k + 1])
                   IN IF k % 2 = 1 THEN d
                      ELSE IF 2 * d > 9 THEN 2 * d - 9 ELSE 2 * d
        Sum[k \in 0..Len(v)] == IF k = 0 THEN 0 ELSE Term(k) + Sum[k - 1]
    IN Len(v) > 0 /\ IsDigits(v) /\ Sum[Len(v)] % 10 = 0

\* PAN: ten characters, five letters (the fourth out of the entity-type
\* characters), four digits, one letter.
PanValid(v) ==
    /\ Len(v) = 10
    /\ \A i \in {1, 2, 3, 5, 10} : v[i] \in Letters
    /\ v[4] \in {"P", "C", "H", "F", "A", "T", "B", "L", "J", "G"}
    /\ IsDigits(SubSeq(v, 6, 9))

\* The validation verdict of a candidate; a type without a checksum or a
\* structure rule of its own passes.
IsValid(c) ==
    CASE c.type = "AADHAAR" -> VerhoeffValid(c.raw_value)
      [] c.type = "CARD"    -> LuhnValid(c.raw_value)
      [] c.type = "PAN"     -> PanValid(c.raw_value)
      [] OTHER              -> TRUE

\* The candidates the recognizer can emit, each with the probability the
\* disambiguation model gives to its context being about made-up data.
Candidates ==
    { [id |-> "aadhaar-ok", type |-> "AADHAAR", raw_confidence |-> 60,
       synthetic |-> 10,
       raw_value |-> <<"2","3","4","1","2","3","4","1","2","3","4","6">>],
      [id |-> "aadhaar-bad", type |-> "AADHAAR", raw_confidence |-> 60,
       synthetic |-> 10,
       raw_value |-> <<"2","3","4","1","2","3","4","1","2","3","4","7">>],
      [id |-> "card-test", type |-> "CARD", raw_confidence |-> 97,
       synthetic |-> 90,
       raw_value |-> <<"4","1","1","1","1","1","1","1",
                       "1","1","1","1","1","1","1","1">>],
      [id |-> "card-bad", type |-> "CARD", raw_confidence |-> 97,
       synthetic |-> 90,
       raw_value |-> <<"4","1","1","1","1","1","1","1",
                       "1","1","1","1","1","1","1","2">>],
      [id |-> "pan-ok", type |-> "PAN", raw_confidence |-> 50,
       synthetic |-> 20,
       raw_value |-> <<"A","B","C","P","E","1","2","3","4","F">>],
      [id |-> "pan-bad", type |-> "PAN", raw_confidence |-> 50,
       synthetic |-> 20,
       raw_value |-> <<"A","B","C","X","E","1","2","3","4","F">>],
      [id |-> "email-test", type |-> "EMAIL", raw_confidence |-> 85,
       synthetic |-> 80,
       raw_value |-> <<"t","@","x",".","i","n">>] }

\* The sources a request can name: what the recognizer finds in each, or
\* that its content cannot be parsed.
Texts ==
    { [name |-> "clean",    readable |-> TRUE,  visibility |-> "public",
       holds |-> {}],
      [name |-> "kyc",      readable |-> TRUE,  visibility |-> "public",
       holds |-> {"aadhaar-ok", "pan-ok", "aadhaar-bad"}],
      [name |-> "fixture",  readable |-> TRUE,  visibility |-> "unlisted",
       holds |-> {"card-test", "email-test", "card-bad"}],
      [name |-> "bad-only", readable |-> TRUE,  visibility |-> "private",
       holds |-> {"pan-bad"}],
      [name |-> "garbage",  readable |-> FALSE, visibility |-> "public",
       holds |-> {}] }

\* Entity Recognizer: the candidates of a source.
Recognize(text) == {c \in Candidates : c.id \in text.holds}

\* The confidence floor a type's validator promotes to.
ValidatorFloor(type) ==
    CASE type = "AADHAAR" -> 95
      [] type = "CARD"    -> 90
      [] type = "PAN"     -> 85
      [] OTHER            -> 0

\* Promotion of a candidate to a Finding.
Promote(c) ==
    [id         |-> c.id,
     type       |-> c.type,
     risk       |-> RiskOfType(c.type),
     confidence |-> Max2(c.raw_confidence, ValidatorFloor(c.type))]

\* Faulty variant of Validate: an invalid candidate is kept at low confidence.
ValidateDownWeighting(cs) ==
    {IF IsValid(c) THEN Promote(c)
     ELSE [id |-> c.id, type |-> c.type, risk |-> RiskOfType(c.type),
           confidence |-> 1] : c \in cs}

\* Checksum Validator over the candidates of a source: valid candidates are
\* promoted, invalid ones dropped.
Validate(cs) == {Promote(c) : c \in {x \in cs : IsValid(x)}}

\* One tier down; Low is the lowest tier a Finding can carry.
DemoteRisk(risk) ==
    CASE risk = "Critical" -> "High"
      [] risk = "High"     -> "Medium"
      [] OTHER             -> "Low"

\* The probability of the disambiguation verdict for a finding.
SyntheticProbability(f) == (CHOOSE c \in Candidates : c.id = f.id).synthetic

\* Faulty variant of Disambiguate: a synthetic finding is deleted.
DisambiguateDeleting(fs, enabled, available) ==
    IF ~enabled \/ ~available THEN fs
    ELSE {f \in fs : SyntheticProbability(f) <= 60}

\* Disambiguation Filter over the findings of a source: above the threshold
\* of 0.6 the risk goes one tier down and the confidence is scaled by
\* (1 - probability); switched off or without its model, nothing changes.
Disambiguate(fs, enabled, available) ==
    IF ~enabled \/ ~available THEN fs
    ELSE {IF SyntheticProbability(f) > 60
          THEN [f EXCEPT !.risk = DemoteRisk(@),
                         !.confidence = (@ * (100 - SyntheticProbability(f))) \div 100]
          ELSE f : f \in fs}

\* ---------------------- backend: the pipeline orchestrator (from the spec)

TaskStages == {"Recognizing", "Validating", "Disambiguating"}

\* Faulty variant of StageAfter: the toggle is not looked at.
StageAfterIgnoringToggle(s, nlp) ==
    CASE s = "Idle"           -> "Recognizing"
      [] s = "Recognizing"    -> "Validating"
      [] s = "Validating"     -> "Disambiguating"
      [] s = "Disambiguating" -> "Scoring"
      [] OTHER                -> "Complete"

\* Idle -> Recognizing -> Validating -> (Disambiguating) -> Scoring -> Complete.
StageAfter(s, nlp) ==
    CASE s = "Idle"           -> "Recognizing"
      [] s = "Recognizing"    -> "Validating"
      [] s = "Validating"     -> IF nlp THEN "Disambiguating" ELSE "Scoring"
      [] s = "Disambiguating" -> "Scoring"
      [] OTHER                -> "Complete"

\* Faulty variant of ScanFailed: one failed source fails the scan.
ScanFailedOnAny(tk) == \E i \in DOMAIN tk : tk[i] = "failed"

\* The scan fails only if all of its sources failed.
ScanFailed(tk) == \A i \in DOMAIN tk : tk[i] = "failed"

\* Faulty variant of MayStart: queued tasks keep starting after a cancellation.
MayStartAlways(cancel) == TRUE

\* A queued task is started only while no cancellation has arrived.
MayStart(cancel) == ~cancel

\* The core output: the findings of the sources that did not fail, flattened,
\* the ESS summary over the sources with findings, and the source count.
OutputOf(ins, tk, fnd) ==
    LET live == {i \in DOMAIN tk : tk[i] # "failed"}
        hit == {i \in live : fnd[i] # {}}
        scoreOf == [i \in hit |-> ScoreOfSource(fnd[i], ins[i].visibility).score]
    IN [findings    |-> UNION {{<<i, f>> : f \in fnd[i]} : i \in live},
        ess_summary |->
            IF hit = {} THEN Null
            ELSE [max_ess           |-> SetMax({scoreOf[i] : i \in hit}),
                  label             |-> LabelOf(SetMax({scoreOf[i] : i \in hit})),
                  per_source_scores |-> scoreOf],
        total_sources_scanned |-> Cardinality(live)]

\* A request as it arrives: its sources, its toggle, and whether the model of
\* the disambiguation filter can be loaded in this process.
PipelineInit ==
    /\ inputs \in UNION {[1..n -> Texts] : n \in 1..MaxInputs}
    /\ nlpOn \in BOOLEAN
    /\ modelUp \in BOOLEAN
    /\ stage = "Idle"
    /\ task = [i \in DOMAIN inputs |-> "waiting"]
    /\ cands = [i \in DOMAIN inputs |-> {}]
    /\ found = [i \in DOMAIN inputs |-> {}]
    /\ validated = [i \in DOMAIN inputs |-> {}]
    /\ cancelRequested = FALSE
    /\ output = Null
    /\ outcome = "none"

\* The orchestrator takes the request up: one recognition task per source.
StartScan ==
    /\ stage = "Idle"
    /\ stage' = StageAfter(stage, nlpOn)
    /\ task' = [i \in DOMAIN task |-> "queued"]
    /\ UNCHANGED <<inputs, nlpOn, modelUp, cands, found, validated,
                   cancelRequested, output, outcome>>
    /\ UNCHANGED <<clientVars, scorerVars>>

\* A worker of the pool takes a queued task.
StartTask(i) ==
    /\ i \in DOMAIN task
    /\ stage \in TaskStages
    /\ task[i] = "queued"
    /\ MayStart(cancelRequested)
    /\ Cardinality({j \in DOMAIN task : task[j] = "running"}) < PoolSize
    /\ task' = [task EXCEPT ![i] = "running"]
    /\ UNCHANGED <<inputs, nlpOn, modelUp, stage, cands, found, validated,
                   cancelRequested, output, outcome>>
    /\ UNCHANGED <<clientVars, scorerVars>>

\* A running task ends: the stage's component has processed the source, or
\* the source turned out not to be parseable and is skipped from here on.
FinishTask(i) ==
    /\ i \in DOMAIN task
    /\ stage \in TaskStages
    /\ task[i] = "running"
    /\ IF stage = "Recognizing" /\ ~inputs[i].readable
       THEN /\ task' = [task EXCEPT ![i] = "failed"]
            /\ UNCHANGED <<cands, found, validated>>
       ELSE /\ task' = [task EXCEPT ![i] = "done"]
            /\ cands' = IF stage = "Recognizing"
                        THEN [cands EXCEPT ![i] = Recognize(inputs[i])]
                        ELSE cands
            /\ validated' = IF stage = "Validating"
                            THEN [validated EXCEPT ![i] = Validate(cands[i])]
                            ELSE validated
            /\ found' = CASE stage = "Validating" ->
                               [found EXCEPT ![i] = Validate(cands[i])]
                          [] stage = "Disambiguating" ->
                               [found EXCEPT ![i] = Disambiguate(@, nlpOn, modelUp)]
                          [] OTHER -> found
    /\ UNCHANGED <<inputs, nlpOn, modelUp, stage, cancelRequested, output, outcome>>
    /\ UNCHANGED <<clientVars, scorerVars>>

\* Every task of the stage has ended: the scan fails if no source is left,
\* and enters the next stage otherwise.
Advance ==
    /\ stage \in TaskStages
    /\ ~cancelRequested
    /\ \A i \in DOMAIN task : task[i] \in {"done", "failed"}
    /\ IF ScanFailed(task)
       THEN /\ stage' = "Failed"
            /\ outcome' = "no scannable content"
            /\ UNCHANGED task
       ELSE /\ stage' = StageAfter(stage, nlpOn)
            /\ task' = [i \in DOMAIN task |->
                          IF task[i] = "done" /\ stage' \in TaskStages
                          THEN "queued" ELSE task[i]]
            /\ UNCHANGED outcome
    /\ UNCHANGED <<inputs, nlpOn, modelUp, cands, found, validated,
                   cancelRequested, output>>
    /\ UNCHANGED <<clientVars, scorerVars>>

\* The scorer runs over the sources that are left and the scan completes.
Score ==
    /\ stage = "Scoring"
    /\ ~cancelRequested
    /\ output' = OutputOf(inputs, task, found)
    /\ stage' = StageAfter(stage, nlpOn)
    /\ outcome' = "ok"
    /\ UNCHANGED <<inputs, nlpOn, modelUp, task, cands, found, validated,
                   cancelRequested>>
    /\ UNCHANGED <<clientVars, scorerVars>>

\* The client disconnects or the request times out.
Cancel ==
    /\ stage \in TaskStages \cup {"Scoring"}
    /\ ~cancelRequested
    /\ cancelRequested' = TRUE
    /\ UNCHANGED <<inputs, nlpOn, modelUp, stage, task, cands, found, validated,
                   output, outcome>>
    /\ UNCHANGED <<clientVars, scorerVars>>

\* The cancellation takes effect: tasks in flight are aborted, queued ones
\* are dropped, and the scan ends without an output.
Abort ==
    /\ cancelRequested
    /\ stage \in TaskStages \cup {"Scoring"}
    /\ stage' = "Failed"
    /\ outcome' = "cancelled"
    /\ task' = [i \in DOMAIN task |->
                  CASE task[i] = "running" -> "aborted"
                    [] task[i] = "queued"  -> "skipped"
                    [] OTHER               -> task[i]]
    /\ UNCHANGED <<inputs, nlpOn, modelUp, cands, found, validated,
                   cancelRequested, output>>
    /\ UNCHANGED <<clientVars, scorerVars>>

NextPipeline ==
    \/ StartScan
    \/ \E i \in 1..MaxInputs : StartTask(i)
    \/ \E i \in 1..MaxInputs : FinishTask(i)
    \/ Advance
    \/ Score
    \/ Cancel
    \/ Abort

InitPipeline == ClientInit /\ ScorerIdle /\ PipelineInit

SpecPipeline == InitPipeline /\ [][NextPipeline]_vars

\* ------------------------------------------------------------ Profile page

EntryValues == {"", "torvalds"}
NoteValues == {"", "mine"}

\* addEntry's new entry, and an entry with its value typed in.
Entry(v) == [kind |-> "github", label |-> "", value |-> v]

\* The profiles GET /profile can answer with.
StoredProfiles ==
    { [entries |-> <<>>, notes |-> ""],
      [entries |-> <<Entry("torvalds")>>, notes |-> "mine"] }

\* The results POST /profile/scan and GET /profile/scan/last can answer with.
ProfileScanResults ==
    { [total_findings |-> 0, max_ess |-> 0, ess_label |-> "INFO"],
      [total_findings |-> 2, max_ess |-> 850, ess_label |-> "HIGH"] }

\* saveProfile({ entries, notes: notes || undefined }): the body of PUT /profile.
saveProfile(e, n) ==
    JsonStringify([entries |-> e, notes |-> IF n = "" THEN Undefined ELSE n],
                  {"notes"})

\* An API call of handleScan: its name, its body and how it settled.
Call(api, body, how) == [api |-> api, body |-> body, outcome |-> how]

Settle(log, how) ==
    [log EXCEPT ![Len(log)] = Call(log[Len(log)].api, log[Len(log)].body, how)]

\* Faulty variant of ScanAfterSave: the scan is requested whatever the save did.
ScanAfterSaveAlways(saveOk) == TRUE

\* handleScan: `await saveProfile(...)` throws when the save is rejected, so
\* the scanProfile call on the next line is reached only after it resolved.
ScanAfterSave(saveOk) == saveOk

\* Faulty variant of NothingToScan: no check of the entry list.
NothingToScanNever(e) == FALSE

\* handleScan: `if (entries.length === 0)` returns after a toast.
NothingToScan(e) == Len(e) = 0

\* The mount effect once both of its requests are settled; a rejected request
\* counts as an empty profile, or as no last scan.
ProfileLoaded(profile, scan) ==
    /\ profLoading
    /\ entries' = profile.entries
    /\ notes' = profile.notes
    /\ lastScan' = scan
    /\ profLoading' = FALSE
    /\ UNCHANGED <<saving, profScanning, showFindings, toastTitle, calls,
                   clickEntries, clickNotes, clickLastScan>>
    /\ UNCHANGED nonProfileVars

addEntry ==
    /\ ~profLoading
    /\ Len(entries) < MaxEntries
    /\ entries' = Append(entries, Entry(""))
    /\ UNCHANGED <<notes, profLoading, saving, profScanning, lastScan,
                   showFindings, toastTitle, calls, clickEntries,
                   clickNotes, clickLastScan>>
    /\ UNCHANGED nonProfileVars

removeEntry(idx) ==
    /\ ~profLoading
    /\ idx \in 1..Len(entries)
    /\ entries' = SubSeq(entries, 1, idx - 1) \o SubSeq(entries, idx + 1, Len(entries))
    /\ UNCHANGED <<notes, profLoading, saving, profScanning, lastScan,
                   showFindings, toastTitle, calls, clickEntries,
                   clickNotes, clickLastScan>>
    /\ UNCHANGED nonProfileVars

updateEntry(idx, val) ==
    /\ ~profLoading
    /\ idx \in 1..Len(entries)
    /\ entries[idx].value # val
    /\ entries' = [entries EXCEPT ![idx] = Entry(val)]
    /\ UNCHANGED <<notes, profLoading, saving, profScanning, lastScan,
                   showFindings, toastTitle, calls, clickEntries,
                   clickNotes, clickLastScan>>
    /\ UNCHANGED nonProfileVars

setNotes(n) ==
    /\ ~profLoading
    /\ n # notes
    /\ notes' = n
    /\ UNCHANGED <<entries, profLoading, saving, profScanning, lastScan,
                   showFindings, toastTitle, calls, clickEntries,
                   clickNotes, clickLastScan>>
    /\ UNCHANGED nonProfileVars

\* handleSave up to its await, where it sends saveProfile({ entries, notes });
\* the button is disabled while saving.
handleSave ==
    /\ ~profLoading
    /\ ~saving
    /\ saving' = TRUE
    /\ UNCHANGED <<entries, notes, profLoading, profScanning, lastScan,
                   showFindings, toastTitle, calls, clickEntries, clickNotes,
                   clickLastScan>>
    /\ UNCHANGED nonProfileVars

\* handleSave after its request settled.
SaveAnswered(ok) ==
    /\ saving
    /\ saving' = FALSE
    /\ toastTitle' = IF ok THEN "Profile saved" ELSE "Save failed"
    /\ UNCHANGED <<entries, notes, profLoading, profScanning, lastScan,
                   showFindings, calls, clickEntries, clickNotes, clickLastScan>>
    /\ UNCHANGED nonProfileVars

\* handleScan up to its first await; the buttons are disabled while scanning.
handleScan ==
    /\ ~profLoading
    /\ ~profScanning
    /\ clickEntries' = entries
    /\ clickNotes' = notes
    /\ clickLastScan' = lastScan
    /\ IF NothingToScan(entries)
       THEN /\ toastTitle' = "No entries"
            /\ calls' = <<>>
            /\ UNCHANGED profScanning
       ELSE /\ profScanning' = TRUE
            /\ calls' = <<Call("saveProfile", saveProfile(entries, notes), "pending")>>
            /\ UNCHANGED toastTitle
    /\ UNCHANGED <<entries, notes, profLoading, saving, lastScan, showFindings>>
    /\ UNCHANGED nonProfileVars

\* handleScan after its saveProfile settled.
ScanSaveAnswered(ok) ==
    /\ profScanning
    /\ calls[Len(calls)].api = "saveProfile"
    /\ calls[Len(calls)].outcome = "pending"
    /\ IF ScanAfterSave(ok)
       THEN /\ calls' = Append(Settle(calls, IF ok THEN "resolved" ELSE "rejected"),
                               Call("scanProfile", Null, "pending"))
            /\ UNCHANGED <<profScanning, toastTitle>>
       ELSE /\ calls' = Settle(calls, "rejected")
            /\ toastTitle' = "Scan failed"
            /\ profScanning' = FALSE
    /\ UNCHANGED <<entries, notes, profLoading, saving, lastScan, showFindings,
                   clickEntries, clickNotes, clickLastScan>>
    /\ UNCHANGED nonProfileVars

\* handleScan after its scanProfile resolved.
ScanProfileSucceeds(result) ==
    /\ profScanning
    /\ calls[Len(calls)].api = "scanProfile"
    /\ calls' = Settle(calls, "resolved")
    /\ lastScan' = result
    /\ showFindings' = TRUE
    /\ toastTitle' = "Scan complete"
    /\ profScanning' = FALSE
    /\ UNCHANGED <<entries, notes, profLoading, saving, clickEntries,
                   clickNotes, clickLastScan>>
    /\ UNCHANGED nonProfileVars

\* handleScan after its scanProfile was rejected.
ScanProfileFails ==
    /\ profScanning
    /\ calls[Len(calls)].api = "scanProfile"
    /\ calls' = Settle(calls, "rejected")
    /\ toastTitle' = "Scan failed"
    /\ profScanning' = FALSE
    /\ UNCHANGED <<entries, notes, profLoading, saving, lastScan, showFindings,
                   clickEntries, clickNotes, clickLastScan>>
    /\ UNCHANGED nonProfileVars

NextProfile ==
    \/ \E p \in StoredProfiles, r \in ProfileScanResults \cup {Null} :
          ProfileLoaded(p, r)
    \/ addEntry
    \/ \E idx \in 1..MaxEntries : removeEntry(idx)
    \/ \E idx \in 1..MaxEntries, v \in EntryValues : updateEntry(idx, v)
    \/ \E n \in NoteValues : setNotes(n)
    \/ handleSave
    \/ \E ok \in BOOLEAN : SaveAnswered(ok)
    \/ handleScan
    \/ \E ok \in BOOLEAN : ScanSaveAnswered(ok)
    \/ \E r \in ProfileScanResults : ScanProfileSucceeds(r)
    \/ ScanProfileFails

SpecProfile == Init /\ [][NextProfile]_vars

\* ------------------------------------------- severity colours of a score
\* Scores are in hundredths, like every ESS of the model.

\* ESSGauge's getEssColor(summary.max_ess).
getEssColor(score) ==
    IF score >= 800 THEN "hsl(var(--risk-critical))"
    ELSE IF score >= 600 THEN "hsl(var(--risk-high))"
    ELSE IF score >= 400 THEN "hsl(var(--risk-medium))"
    ELSE "hsl(var(--risk-low))"

\* Profile's essColor(lastScan.max_ess), the class of the score itself.
essColor(ess) ==
    IF ess >= 800 THEN "text-red-400"
    ELSE IF ess >= 600 THEN "text-orange-400"
    ELSE IF ess >= 400 THEN "text-yellow-400"
    ELSE "text-green-400"

\* Profile: the inline colour of the badge that shows lastScan.ess_label.
LabelBadgeColor(maxEss) ==
    IF maxEss >= 800 THEN "#f87171"
    ELSE IF maxEss >= 600 THEN "#fb923c"
    ELSE IF maxEss >= 400 THEN "#facc15"
    ELSE "#4ade80"

\* Dashboard: the class of the "Max ESS Score" stat.
MaxEssStatColor(highestEss) ==
    IF highestEss >= 800 THEN "text-red-400"
    ELSE IF highestEss >= 600 THEN "text-orange-400"
    ELSE IF highestEss >= 400 THEN "text-yellow-400"
    ELSE "text-green-400"

\* The severity a colour stands for: riskColors' classes, the --risk-*
\* variables, and the hex values of the same four Tailwind colours.
SeverityOfColour(colour) ==
    CASE colour \in {"hsl(var(--risk-critical))", "text-red-400", "#f87171"} -> "CRITICAL"
      [] colour \in {"hsl(var(--risk-high))", "text-orange-400", "#fb923c"} -> "HIGH"
      [] colour \in {"hsl(var(--risk-medium))", "text-yellow-400", "#facc15"} -> "MEDIUM"
      [] OTHER -> "LOW"

\* Every score of the range [0, 10].
Scores == 0..1000

ColourInit ==
    /\ essScore \in Scores
    /\ colours = Null

\* The four places render the score they are given.
RenderColours ==
    /\ colours = Null
    /\ colours' = [gauge     |-> getEssColor(essScore),
                   profile   |-> essColor(essScore),
                   badge     |-> LabelBadgeColor(essScore),
                   dashboard |-> MaxEssStatColor(essScore)]
    /\ UNCHANGED essScore
    /\ UNCHANGED nonColourVars

InitColour ==
    TabInit /\ LoggedIn /\ ProfileInit /\ ScorerIdle /\ PipelineIdle /\ ColourInit

SpecColour == InitColour /\ [][RenderColours]_vars

\* ================================================================ claims

\* The findings the client holds in an output structure: the displayed scan
\* response and the body of the report request.
OutputFindings ==
    (IF results = Null THEN {}
     ELSE {results.findings[i] : i \in 1..Len(results.findings)})
    \cup
    (IF reportBody = Null THEN {}
     ELSE {reportBody.findings[i] : i \in 1..Len(reportBody.findings)})

HistoryCounters ==
    {"findings_count", "max_ess", "ess_label", "sources_scanned", "scan_duration"}

ReportFields == {"findings", "ess_results", "scan_type", "target", "files_scanned"}

HasSummary == results # Null /\ results.ess_summary # Null

\* C1: in every scan response handed to the results view, ess_summary is
\* null if and only if findings is empty; the response CombinedTab merges
\* from a GitHub and a Pastebin response included.
C1_SummaryNullIffNoFindings ==
    results # Null =>
        ((results.ess_summary = Null) <=> (Len(results.findings) = 0))

\* C1 witness: a merged response whose only finding is the Pastebin one,
\* the GitHub scan having covered a source and found nothing.
C1_Witness ==
    /\ activeTab = "combined"
    /\ HasSummary
    /\ Len(results.findings) = 1
    /\ results.findings[1].platform = "pastebin"
    /\ results.total_sources_scanned > 1

\* C2: no finding of a scan response or of a report request carries the
\* unmasked raw value, and no history record carries findings at all.
C2_NoRawValueInOutputs ==
    /\ \A f \in OutputFindings :
          ~("value" \in DOMAIN f /\ f.value = RawValue(f.type))
    /\ lastHistory # Null => "findings" \notin DOMAIN lastHistory

\* C3: a saved history record holds, besides the scan_type and target that
\* name the scan, exactly the five counters of the displayed result, and no
\* finding or finding value.
C3_HistoryHoldsCountersOnly ==
    lastHistory # Null =>
        /\ results # Null
        /\ HistoryCounters \subseteq DOMAIN lastHistory
        /\ DOMAIN lastHistory \subseteq HistoryCounters \cup {"scan_type", "target"}
        /\ lastHistory.findings_count = Len(results.findings)
        /\ lastHistory.sources_scanned = results.total_sources_scanned
        /\ lastHistory.scan_duration = results.scan_duration
        /\ lastHistory.max_ess =
              (IF results.ess_summary = Null THEN 0 ELSE results.ess_summary.max_ess)
        /\ lastHistory.ess_label =
              (IF results.ess_summary = Null THEN "" ELSE results.ess_summary.label)

\* C3 witness: a record saved for a combined result with two findings.
C3_Witness ==
    /\ activeTab = "combined"
    /\ lastHistory # Null
    /\ lastHistory.findings_count = 2

\* C4: every report request carries all five fields, findings and
\* files_scanned being those of the displayed result, and a request answered
\* with an ok response ends in a download, not in the failure alert.
C4_ReportRequestComplete ==
    reportBody # Null =>
        /\ ReportFields \subseteq DOMAIN reportBody
        /\ reportBody.findings = results.findings
        /\ reportBody.files_scanned = results.total_sources_scanned
        /\ (reportOk /\ reportOutcome # "requested") => reportOutcome = "downloaded"

\* C5: the avg_ess of every summary shown is the mean of the per-source
\* scores over all sources with a finding.
C5_AvgIsMeanOverSources ==
    HasSummary =>
        /\ Len(sourceScores) > 0
        /\ RatEq(results.ess_summary.avg_ess,
                 Rat(SeqSum(sourceScores), Len(sourceScores)))

\* C6: the label of every summary shown is the band of its max_ess.
C6_LabelIsBandOfMax ==
    HasSummary => results.ess_summary.label = LabelOf(results.ess_summary.max_ess)

\* C7: every ESS value reported lies in [0, 10]: each per-source score, the
\* max_ess of every summary shown, and so the gauge stays within 100 percent.
C7_EssWithinRange ==
    /\ \A i \in 1..Len(sourceScores) : sourceScores[i] \in 0..1000
    /\ HasSummary =>
          /\ results.ess_summary.max_ess \in 0..1000
          /\ GaugePct(results.ess_summary) \in 0..10000

\* C7 witness: a merged summary of two scans that both reach the ceiling.
C7_Witness ==
    /\ activeTab = "combined"
    /\ HasSummary
    /\ results.ess_summary.max_ess = 1000
    /\ Len(sourceScores) >= 2
    /\ \A i \in 1..Len(sourceScores) : sourceScores[i] = 1000

\* C8: the max_ess of a summary is the maximum of the per-source scores of
\* the scan, over the sources of both scans for a combined scan.
C8_MaxIsMaxOverSources ==
    HasSummary => results.ess_summary.max_ess = SeqMax(sourceScores)

\* C8 witness: a merged summary whose maximum comes from the Pastebin scan
\* while the GitHub scan found something smaller.
C8_Witness ==
    /\ activeTab = "combined"
    /\ HasSummary
    /\ Len(results.findings) >= 2
    /\ results.findings[1].platform = "github"
    /\ results.findings[1].type = "PAN"
    /\ results.ess_summary.max_ess = 1000

\* C9: every request of a scan carries use_nlp equal to the toggle's state
\* when the scan was started, the toggle starts disabled, and a scan sends
\* one request per backend scan of its tab.
C9_UseNlpFollowsToggle ==
    /\ \A s \in DOMAIN sent : sent[s].body.use_nlp = nlpAtScan
    /\ ~nlpTouched => ~useNlp
    /\ scanning =>
          DOMAIN sent = (IF activeTab = "combined" THEN {"github", "pastebin"}
                         ELSE {activeTab})

\* C9 witness: a combined scan started with the filter on, the toggle
\* switched off again while the scan runs.
C9_Witness ==
    /\ activeTab = "combined"
    /\ scanning
    /\ nlpAtScan
    /\ ~useNlp
    /\ sent["github"].body.use_nlp /\ sent["pastebin"].body.use_nlp

ValidStored ==
    /\ lsToken # NullStr
    /\ lsUser # Null
    /\ lsUser.json = "object"

RouteMatchesAuth ==
    /\ isLoading => view = "spinner"
    /\ ~isLoading =>
          /\ (view = "children") <=> (token # NullStr /\ user # Null)
          /\ (view = "login") <=> ~(token # NullStr /\ user # Null)

\* C10: ProtectedRoute never redirects to /login while the auth check is
\* loading; afterwards it renders the children iff token and user are set
\* and redirects otherwise; a load over a valid stored token and user goes
\* from the spinner to the children without a redirect.
C10_ProtectedRoute ==
    /\ []RouteMatchesAuth
    /\ [][(isLoading /\ ValidStored) => view' = "children"]_vars

\* C10 witness: the children rendered after a restore from storage.
C10_Witness ==
    /\ ~isLoading
    /\ view = "children"
    /\ token = lsToken
    /\ authPending = "none"
    /\ authError = NullStr

\* C18: every scan that completes successfully (one without findings too)
\* has caused exactly one saveScanHistory call, carrying the counters of its
\* result; later renders of the same result cause no further call; a scan
\* that failed or is still running has caused none.
C18_HistorySavedOncePerResult ==
    /\ results # Null =>
          /\ historySaves = 1
          /\ lastHistory # Null
          /\ lastHistory.findings_count = Len(results.findings)
          /\ lastHistory.sources_scanned = results.total_sources_scanned
          /\ lastHistory.scan_duration = results.scan_duration
    /\ results = Null => historySaves = 0 /\ lastHistory = Null

\* A result that was rendered again, by the download of its report, after
\* its history was saved.
C18_Witness ==
    /\ results # Null
    /\ historySaves = 1
    /\ reportOutcome = "downloaded"

\* The target that names what a GitHub request asked the backend to scan.
TargetOfRequest(req) ==
    IF req.endpoint = "/scan/github/single" THEN req.body.repo
    ELSE TargetOf("github", "user", req.body.username)

\* C19: every history record ScanResults saves carries a defined scan_type
\* and a defined target, and the target names what the scan behind the
\* record was sent to scan.
C19_HistoryNamesScan ==
    lastHistory # Null =>
        /\ "scan_type" \in DOMAIN lastHistory
        /\ "target" \in DOMAIN lastHistory
        /\ activeTab = "github" =>
              lastHistory.target = TargetOfRequest(sent["github"])

\* C20: handleScan calls scanProfile only as its second call, after its own
\* saveProfile of the entries and notes it was called with has resolved;
\* when that save is rejected no scanProfile call follows and lastScan is
\* as it was; when it is called with an empty entry list it makes no call
\* and scanning stays false.
C20_ScanOnlyAfterOwnSave ==
    /\ \A i \in 1..Len(calls) :
          calls[i].api = "scanProfile" =>
              /\ i = 2
              /\ calls[1] = Call("saveProfile",
                                 saveProfile(clickEntries, clickNotes), "resolved")
    /\ (Len(calls) >= 1 /\ calls[1].outcome = "rejected") =>
          /\ Len(calls) = 1
          /\ lastScan = clickLastScan
    /\ Len(clickEntries) = 0 => calls = <<>> /\ ~profScanning

\* A scan of a profile that answered after the entries were edited again.
C20_Witness ==
    /\ Len(calls) = 2
    /\ calls[2].outcome = "resolved"
    /\ lastScan # clickLastScan
    /\ entries # clickEntries

\* C14: the combination multiplier of every scored source is exactly the
\* largest multiplier among the rules whose types are all found in that
\* source, and 1.00 when there is none: matching rules do not stack, and
\* types found in another source count for nothing.
C14_MultiplierIsBestRule ==
    scScores # Null =>
        \A i \in 1..Len(scSources) :
            LET types == TypesIn(scSources[i].findings)
                m == scScores[i].multiplier
            IN /\ \A r \in ToxicRules : r.types \subseteq types => m >= r.mult
               /\ \/ m = 100 /\ \A r \in ToxicRules : ~(r.types \subseteq types)
                  \/ \E r \in ToxicRules : r.types \subseteq types /\ m = r.mult
               /\ {"AADHAAR", "PAN", "PHONE"} \subseteq types => m = 190
               /\ ({"CARD", "AADHAAR"} \subseteq types /\ "PAN" \notin types) => m = 185

\* A source where three rules match, next to a source whose only type would
\* complete a fourth rule.
C14_Witness ==
    /\ scScores # Null
    /\ TypesIn(scSources[1].findings) = {"AADHAAR", "PAN", "PHONE", "UPI"}
    /\ TypesIn(scSources[2].findings) = {"CARD"}
    /\ scScores[1].multiplier = 190
    /\ scScores[2].multiplier = 100

C11_SourceFailureIsolated ==
    /\ \A i \in DOMAIN task : task[i] = "failed" => ~inputs[i].readable
    /\ stage = "Complete" =>
          /\ outcome = "ok"
          /\ output # Null
          /\ \E i \in DOMAIN task : inputs[i].readable
          /\ output.total_sources_scanned =
                Cardinality({i \in DOMAIN task : inputs[i].readable})
          /\ \A i \in DOMAIN task :
                inputs[i].readable =>
                    /\ task[i] = "done"
                    /\ cands[i] = Recognize(inputs[i])
                    /\ validated[i] = Validate(Recognize(inputs[i]))
                    /\ \A f \in found[i] : <<i, f>> \in output.findings
                    /\ found[i] # {} =>
                          /\ output.ess_summary # Null
                          /\ i \in DOMAIN output.ess_summary.per_source_scores
    /\ (stage = "Failed" /\ ~cancelRequested) =>
          /\ \A i \in DOMAIN task : ~inputs[i].readable
          /\ outcome = "no scannable content"
          /\ output = Null

\* A completed scan with a skipped source and a scored one.
C11_Witness ==
    /\ stage = "Complete"
    /\ \E i \in DOMAIN task : task[i] = "failed"
    /\ \E i \in DOMAIN task : found[i] # {}
    /\ output.ess_summary # Null

C13_CancelledScanHasNoResult ==
    /\ [](cancelRequested => output = Null /\ stage # "Complete")
    /\ [][cancelRequested =>
             \A i \in DOMAIN task :
                 task[i] = "queued" => task'[i] \in {"queued", "skipped"}]_vars

\* A scan cancelled with one task in flight and another still queued.
C13_Witness ==
    /\ outcome = "cancelled"
    /\ stage = "Failed"
    /\ \E i \in DOMAIN task : task[i] = "aborted"
    /\ \E i \in DOMAIN task : task[i] = "skipped"

\* C15: every finding of a source, at every stage and in the output, stems
\* from a candidate of that source whose validation verdict is valid; the
\* Aadhaar with the altered last digit, the card number failing Luhn and the
\* PAN with a wrong fourth character never become findings.
C15_InvalidCandidatesDropped ==
    /\ \A i \in DOMAIN found :
          \A f \in found[i] \cup validated[i] :
              /\ f.id \notin {"aadhaar-bad", "card-bad", "pan-bad"}
              /\ \E c \in cands[i] : c.id = f.id /\ IsValid(c)
    /\ output # Null =>
          \A p \in output.findings :
              p[2].id \notin {"aadhaar-bad", "card-bad", "pan-bad"}

\* A completed scan of a source holding a valid and an invalid Aadhaar.
C15_Witness ==
    /\ stage = "Complete"
    /\ \E i \in DOMAIN cands :
          /\ "aadhaar-bad" \in {c.id : c \in cands[i]}
          /\ \E p \in output.findings : p[1] = i /\ p[2].id = "aadhaar-ok"

\* C16: the findings of a source are the same in number and identity as the
\* validator left them; with the toggle off or the model unavailable they
\* are unchanged; otherwise a finding differs from what the validator left
\* only if it was judged synthetic above the threshold, and then only by a
\* risk one tier lower (Low stays Low) and a lower confidence, which every
\* such finding has once the disambiguation stage is over.
C16_DisambiguationKeepsFindings ==
    \A i \in DOMAIN found :
        /\ {f.id : f \in found[i]} = {f.id : f \in validated[i]}
        /\ Cardinality(found[i]) = Cardinality(validated[i])
        /\ (~nlpOn \/ ~modelUp) => found[i] = validated[i]
        /\ \A f \in found[i] : \A b \in validated[i] :
              b.id = f.id =>
                  /\ \/ f = b
                     \/ /\ nlpOn /\ modelUp
                        /\ SyntheticProbability(b) > 60
                        /\ f.type = b.type
                        /\ <<b.risk, f.risk>> \in
                              { <<"Critical", "High">>, <<"High", "Medium">>,
                                <<"Medium", "Low">>, <<"Low", "Low">> }
                        /\ f.confidence < b.confidence
                  /\ ( /\ stage \in {"Scoring", "Complete"}
                       /\ nlpOn /\ modelUp
                       /\ SyntheticProbability(b) > 60 ) => f # b

\* The test card after disambiguation: one tier down, confidence lowered.
C16_Witness ==
    /\ stage = "Complete"
    /\ \E i \in DOMAIN found : \E f \in found[i] :
          f.id = "card-test" /\ f.risk = "High" /\ f.confidence < 90

\* C21: the step in which a rejected history save is dealt with changes
\* neither the displayed results nor the tab's error nor the scanning flag:
\* the rejection is swallowed and nothing of it reaches the user.
C21_HistorySaveBestEffort ==
    [][(historyOutcome = "pending" /\ historyOutcome' = "ignored") =>
          /\ results' = results
          /\ error' = error
          /\ scanning' = scanning]_vars

\* Results on display whose history save was rejected.
C21_Witness ==
    /\ historyOutcome = "ignored"
    /\ results # Null
    /\ error = NullStr

\* C22: once the mount effect has run, the token and the user in memory are
\* both null or both set, the token in memory is set exactly when
\* localStorage holds aegis_token, and so a request carries an Authorization
\* header exactly when the user is authenticated.
C22_TokenUserStorageAgree ==
    ~isLoading =>
        /\ (token = NullStr) <=> (user = Null)
        /\ (token # NullStr) <=> (lsToken # NullStr)
        /\ (Post("/history", Null).authorization # NullStr)
              <=> IsAuthenticated(token, user)

\* C23: the step in which a login or register call ends with a response that
\* is not ok leaves the token, the user and both localStorage keys as they
\* were, and the error it throws carries the server's detail or the default
\* message of the call.
C23_FailedSignInChangesNothing ==
    [][(authPending # "none" /\ authPending' = "none" /\ authError' # NullStr) =>
          /\ token' = token
          /\ user' = user
          /\ lsToken' = lsToken
          /\ lsUser' = lsUser
          /\ authError' \in (ErrorDetails \ {""}) \cup
                {IF authPending = "login" THEN "Login failed"
                 ELSE "Registration failed"}]_vars

\* A login rejected while a session is in place.
C23_Witness ==
    /\ authError = "Login failed"
    /\ token = "tok-alice"
    /\ lsToken = "tok-alice"
    /\ user # Null

\* C24: in every tab, while scanning is true results and error are both
\* null, results and error are never both set, and the step that ends a scan
\* leaves scanning false with exactly one of results and error set.
C24_ScanStateExclusive ==
    /\ [](scanning => results = Null /\ error = NullStr)
    /\ [](~(results # Null /\ error # NullStr))
    /\ [][(scanning /\ ~scanning' /\ activeTab' = activeTab) =>
             (results' # Null) # (error' # NullStr)]_vars

\* A scan of the social tab that has ended with results and no error.
C24_Witness ==
    /\ ~scanning
    /\ results # Null
    /\ error = NullStr
    /\ historySaves = 1
    /\ activeTab = "social"

\* C25: a combined scan shows results only in the step that fulfils its last
\* request with the other one already fulfilled; when a request fails the
\* error is shown, results stay null although the other request had been
\* fulfilled, and no history record is saved.
C25_CombinedAllOrNothing ==
    /\ []((activeTab = "combined" /\ error # NullStr) =>
            results = Null /\ historySaves = 0 /\ lastHistory = Null)
    /\ [][(activeTab = "combined" /\ activeTab' = "combined"
              /\ results = Null /\ results' # Null) =>
             /\ \E slot \in pending : pending = {slot}
             /\ DOMAIN replies \cup pending = {"github", "pastebin"}
             /\ DOMAIN replies # {}
             /\ error' = NullStr]_vars

\* A combined scan that failed: the error is shown and nothing else.
C25_Witness ==
    /\ activeTab = "combined"
    /\ ~scanning
    /\ error # NullStr
    /\ results = Null
    /\ sent # NoRequests
    /\ historySaves = 0

\* C26: for every score of [0, 10] the colour shown stands for the same
\* severity in ESSGauge, in Profile's score and label badge and in Dashboard's
\* Max ESS stat, and that severity is CRITICAL, HIGH or MEDIUM exactly when
\* the label the score bands give the score is.
C26_ColourMatchesLabel ==
    colours # Null =>
        LET shown == SeverityOfColour(colours.gauge)
        IN /\ SeverityOfColour(colours.profile) = shown
           /\ SeverityOfColour(colours.badge) = shown
           /\ SeverityOfColour(colours.dashboard) = shown
           /\ \A label \in {"CRITICAL", "HIGH", "MEDIUM"} :
                 (shown = label) <=> (LabelOf(essScore) = label)
====
